---- MODULE Spec2Model ----
(***************************************************************************)
(* A model of protosim's simulation database (evm_simulation/storage.rs)   *)
(* and of its realtime websocket client (evm_simulation/tycho_client.rs).  *)
(*                                                                         *)
(* storage.rs keeps the bodies of track_miss, clear_missed_accounts,       *)
(* init_contracts, init_account and update_state as a block commented out  *)
(* at column 0 (lines 93-204).  That block is the only text of these       *)
(* operations, and it is modelled as written: a line that is commented out *)
(* a second time inside the block does nothing.  In the functions that     *)
(* are compiled (basic, storage, code_by_hash, block_hash) a commented     *)
(* line does nothing either.                                               *)
(***************************************************************************)
EXTENDS Integers, Sequences, FiniteSets, TLC

\* ------------------------------------------------------------------------
\* Domains of the simulation database
\* ------------------------------------------------------------------------

\* B160 account addresses
Addresses == {"a1", "a2"}

\* rU256 storage indices
Slots == {1, 2}

\* rU256 values (balances and storage words); rU256::ZERO is 0
Values == {0, 1}

\* contract code, as raw Bytes
Codes == {"c1", "c2"}

\* BlockHeader.number
BlockNumbers == {1, 2}

\* Option<T>
None == <<>>

Some(x) == <<x>>

\* the empty hash_map::HashMap
EmptyMap == <<>>

\* every HashMap from a subset of D to R
Maps(D, R) == UNION {[S -> R] : S \in SUBSET D}

\* how many operations a run of the database makes
MaxOps == 3

\* struct StateUpdate { storage, balance, code }
StateUpdate(storage, balance, code) ==
    [storage |-> storage, balance |-> balance, code |-> code]

\* the diffs a run draws from: the empty diff, the diffs that write 1 to a
\* set of slots, a balance, a code, and one that sets all three fields
StateUpdates ==
    {StateUpdate(Some([s \in S |-> 1]), None, None) : S \in SUBSET Slots}
        \cup {StateUpdate(None, None, None),
               StateUpdate(None, Some(1), None),
               StateUpdate(None, None, Some("c2")),
               StateUpdate(Some([s \in Slots |-> 1]), Some(1), Some("c2"))}

\* the update maps handed to update_state: every named address gets the diff d
UpdateInputs ==
    {[a \in S |-> d] : S \in SUBSET Addresses, d \in StateUpdates}

VARIABLES
    accounts,         \* external_db.accounts: address -> cached account
    ext_block,        \* external_db.block
    missed_accounts,  \* SimulationDB.missed_accounts
    mocked_accounts,  \* SimulationDB.mocked_accounts
    block,            \* SimulationDB.block
    lastOp,           \* the operation that ran last
    nops,             \* how many operations ran
    rd,               \* what the last read (basic, storage) did and returned
    ret,              \* the revert map the last update_state returned
    upd_addrs,        \* the addresses the last update_state was given
    warned,           \* the addresses the last update_state reported
    outcome,          \* how the last operation ended
    upd_block,        \* the block the last update_state was given
    applied,          \* the diffs the last update_state applied to an account
    pre,              \* history: the accounts before the last update_state
    fetched,          \* history: addresses whose account a fallback query created
    initialized,      \* history: addresses given to init_contracts / init_account
    shared,           \* whether a SharedSimulationDB borrows the store
    adapters,         \* how many SharedSimulationDB were created
    via               \* the method of SharedSimulationDB the last operation
                      \* was called through, "-" when it was called directly

storevars == <<accounts, ext_block, missed_accounts, mocked_accounts, block,
               lastOp, nops, rd, ret, upd_addrs, warned, outcome, upd_block,
               applied, pre, fetched, initialized>>

dbvars == <<storevars, shared, adapters, via>>

VARIABLES
    client,             \* what the constructor called last was given and returned
    pc,                 \* where realtime_messages is
    subscribed,         \* the Subscribe command: "no", "sent" or "failed"
    active_extractors,  \* subscription id -> extractor identity
    chan,               \* the events buffered in the mpsc channel
    tx,                 \* the channel's sender: "alive" or "dropped"
    rx_owner,           \* who holds the channel's receiver
    held,               \* the event a suspended blocking_send still holds
    msg,                \* the frame ws.read() returned last
    pongs,              \* how many Pong frames the client sent
    npings,             \* how many Ping frames the feed sent
    nevents,            \* how many BlockAccountChanges frames the feed sent
    received,           \* the events the consumer took from the receiver
    eos,                \* whether the consumer saw the end of the stream
    after_malformed,    \* history: whether a text frame failed to decode
    announced           \* history: per subscription id, the extractor of the
                        \* latest NewSubscription frame with no
                        \* SubscriptionEnded frame since, "-" when there is none

wsvars == <<client, pc, subscribed, active_extractors, chan, tx, rx_owner, held,
            msg, pongs, npings, nevents, received, eos, after_malformed,
            announced>>

\* one call of add_liquidity_delta
VARIABLES
    liq_x,          \* the argument x: u128
    liq_y,          \* the argument y: i128
    liq_checks,     \* the build has overflow checks (debug) or not (release)
    liq_res         \* what the call gave: nothing yet, a value, or a panic

liqvars == <<liq_x, liq_y, liq_checks, liq_res>>

vars == <<dbvars, wsvars, liqvars>>

\* ------------------------------------------------------------------------
\* Bytecode
\* ------------------------------------------------------------------------

\* to_analysed(Bytecode::new_raw(code)): the analysed Bytecode holding the bytes
to_analysed(code) == [bytecode |-> code, state |-> "Analysed"]

\* ------------------------------------------------------------------------
\* The external database: a cache over the node
\* ------------------------------------------------------------------------

\* what the node may answer to get_balance / get_code (EthRpcDB::basic)
RemoteInfos ==
    [balance : Values, code : {Some(to_analysed(c)) : c \in Codes}]

\* a freshly cached account: the info the node gave and no storage
NewAccount(info) ==
    [balance |-> info.balance, code |-> info.code, storage |-> EmptyMap]

Tracked == DOMAIN accounts

\* the default of rd, when the last operation was no read
NoRead ==
    [addr |-> "a1", slot |-> 1, value |-> 0, mocked |-> FALSE,
     queried |-> FALSE, cached |-> None]

\* how an operation ends: it returns (Ok for a Result), it returns Err, or it
\* panics with a message
Returned == [kind |-> "ok", text |-> ""]

Failed == [kind |-> "error", text |-> "DB::Error"]

\* an operation that returns as if it had succeeded
ReturnsDefault(message) == Returned

\* panic!(message)
PanicWith(message) == [kind |-> "panic", text |-> message]

\* ------------------------------------------------------------------------
\* SimulationDB::update_state, per account
\* ------------------------------------------------------------------------

\* account.storage after `account.storage.insert(*slot, *value)` for every
\* (slot, value) of the diff
InsertAll(storage, diff) ==
    [s \in (DOMAIN storage) \cup (DOMAIN diff) |->
        IF s \in DOMAIN diff THEN diff[s] ELSE storage[s]]

\* revert_storage: the previous value of every slot of the diff for which
\* insert returned Some(previous_value)
RevertStorage(storage, diff) ==
    [s \in (DOMAIN storage) \cap (DOMAIN diff) |-> storage[s]]

\* the account after the diff update_info was applied to it
ApplyUpdate(account, update_info) ==
    [balance |-> IF update_info.balance # None
                 THEN update_info.balance[1] ELSE account.balance,
     code    |-> IF update_info.code # None
                 THEN Some(to_analysed(update_info.code[1])) ELSE account.code,
     storage |-> IF update_info.storage # None
                 THEN InsertAll(account.storage, update_info.storage[1])
                 ELSE account.storage]

\* revert_entry: what update_state records for a tracked account
RevertEntry(account, update_info) ==
    [storage |-> IF update_info.storage # None
                 THEN Some(RevertStorage(account.storage, update_info.storage[1]))
                 ELSE None,
     balance |-> IF update_info.balance # None
                 THEN Some(account.balance) ELSE None,
     code    |-> IF update_info.code # None /\ account.code # None
                 THEN Some(account.code[1].bytecode) ELSE None]

\* external_db.accounts after the loop over update.iter()
UpdatedAccounts(update) ==
    [a \in Tracked |->
        IF a \in DOMAIN update
        THEN ApplyUpdate(accounts[a], update[a]) ELSE accounts[a]]

\* revert_updates: one entry per address of the update that is tracked
RevertUpdates(update) ==
    [a \in (DOMAIN update) \cap Tracked |-> RevertEntry(accounts[a], update[a])]

\* the diffs of the update that find an account to be applied to
AppliedUpdates(update) ==
    [a \in (DOMAIN update) \cap Tracked |-> update[a]]

\* an update that leaves the block as it is
NotPinned(blk) == None

\* self.block = Some(block), and external_db.block = Some(BlockId::Number(..))
Pinned(blk) == Some(blk)

\* the addresses update_state reports: the else branch for an address without
\* an account holds a TODO only, so none is
WarnedAddresses(update) == {}

\* ------------------------------------------------------------------------
\* Operations of SimulationDB
\* ------------------------------------------------------------------------

\* SimulationDB::new(external_db): nothing missed, nothing mocked, no block
InitDb ==
    /\ accounts = EmptyMap
    /\ ext_block = None
    /\ missed_accounts = {}
    /\ mocked_accounts = {}
    /\ block = None
    /\ lastOp = "new"
    /\ nops = 0
    /\ rd = NoRead
    /\ ret = EmptyMap
    /\ upd_addrs = {}
    /\ warned = {}
    /\ outcome = Returned
    /\ upd_block = None
    /\ applied = EmptyMap
    /\ pre = EmptyMap
    /\ fetched = {}
    /\ initialized = {}
    /\ shared = FALSE
    /\ adapters = 0
    /\ via = "-"

\* a call made on the store itself: no SharedSimulationDB holds the &mut
\* borrow of it
Direct ==
    /\ ~shared
    /\ via' = "-"
    /\ UNCHANGED <<shared, adapters>>

\* init_contracts(addresses, code, mock): the insert of the account info is
\* commented out; every address goes into missed_accounts
InitContracts(addresses, code, mock) ==
    /\ nops < MaxOps
    /\ UNCHANGED <<wsvars, liqvars>>
    /\ Direct
    /\ missed_accounts' = missed_accounts \cup addresses
    /\ mocked_accounts' = IF mock THEN mocked_accounts \cup addresses
                                  ELSE mocked_accounts
    /\ initialized' = initialized \cup addresses
    /\ lastOp' = "init_contracts"
    /\ outcome' = Returned
    /\ nops' = nops + 1
    /\ rd' = NoRead /\ ret' = EmptyMap /\ upd_addrs' = {} /\ warned' = {}
    /\ pre' = EmptyMap /\ applied' = EmptyMap /\ upd_block' = None
    /\ UNCHANGED <<accounts, ext_block, block, fetched>>

\* init_account(address, account, mock): the insert of the account info is
\* commented out; the address is added to mocked_accounts when mock is set
InitAccount(address, account, mock) ==
    /\ nops < MaxOps
    /\ UNCHANGED <<wsvars, liqvars>>
    /\ Direct
    /\ mocked_accounts' = IF mock THEN mocked_accounts \cup {address}
                                  ELSE mocked_accounts
    /\ initialized' = initialized \cup {address}
    /\ lastOp' = "init_account"
    /\ outcome' = Returned
    /\ nops' = nops + 1
    /\ rd' = NoRead /\ ret' = EmptyMap /\ upd_addrs' = {} /\ warned' = {}
    /\ pre' = EmptyMap /\ applied' = EmptyMap /\ upd_block' = None
    /\ UNCHANGED <<accounts, ext_block, missed_accounts, block, fetched>>

\* clear_missed_accounts(): the removal of the accounts is commented out
ClearMissedAccounts ==
    /\ nops < MaxOps
    /\ UNCHANGED <<wsvars, liqvars>>
    /\ Direct
    /\ missed_accounts' = {}
    /\ lastOp' = "clear_missed_accounts"
    /\ outcome' = Returned
    /\ nops' = nops + 1
    /\ rd' = NoRead /\ ret' = EmptyMap /\ upd_addrs' = {} /\ warned' = {}
    /\ pre' = EmptyMap /\ applied' = EmptyMap /\ upd_block' = None
    /\ UNCHANGED <<accounts, ext_block, mocked_accounts, block,
                   fetched, initialized>>

\* update_state(update, block); the caller keeps the returned revert map
UpdateState(update, blk) ==
    /\ nops < MaxOps
    /\ UNCHANGED <<wsvars, liqvars>>
    /\ Direct
    /\ ext_block' = Pinned(blk)
    /\ block' = Pinned(blk)
    /\ upd_block' = blk
    /\ accounts' = UpdatedAccounts(update)
    /\ ret' = RevertUpdates(update)
    /\ applied' = AppliedUpdates(update)
    /\ outcome' = Returned
    /\ upd_addrs' = DOMAIN update
    /\ warned' = WarnedAddresses(update)
    /\ pre' = accounts
    /\ lastOp' = "update_state"
    /\ nops' = nops + 1
    /\ rd' = NoRead
    /\ UNCHANGED <<missed_accounts, mocked_accounts, fetched, initialized>>

\* the caller undoes the update it just made: update_state with the revert
\* map that update returned
RevertState(blk) ==
    /\ nops < MaxOps
    /\ UNCHANGED <<wsvars, liqvars>>
    /\ Direct
    /\ lastOp = "update_state"
    /\ ext_block' = Pinned(blk)
    /\ block' = Pinned(blk)
    /\ upd_block' = blk
    /\ accounts' = UpdatedAccounts(ret)
    /\ ret' = RevertUpdates(ret)
    /\ applied' = AppliedUpdates(ret)
    /\ outcome' = Returned
    /\ upd_addrs' = DOMAIN ret
    /\ warned' = WarnedAddresses(ret)
    /\ pre' = pre
    /\ lastOp' = "revert"
    /\ nops' = nops + 1
    /\ rd' = NoRead
    /\ UNCHANGED <<missed_accounts, mocked_accounts, fetched, initialized>>

\* what the node may answer when the external database asks it for the
\* account: it is asked only for an account that is not cached
AskedInfos(address) ==
    IF address \in Tracked THEN {CHOOSE info \in RemoteInfos : TRUE}
                           ELSE RemoteInfos

\* what the node may answer when the external database asks it for the slot:
\* it is asked only for a slot that is not cached
AskedValues(address, index) ==
    IF address \in Tracked /\ index \in DOMAIN accounts[address].storage
    THEN {0} ELSE Values

\* whether the external database answers storage(address, index) from its cache
StorageHit(address, index) ==
    address \in Tracked /\ index \in DOMAIN accounts[address].storage

\* the external database's cache after basic(address): a cached account is
\* answered from the cache, any other is asked from the node and cached
CacheAfterBasic(address, info) ==
    IF address \in Tracked THEN accounts
    ELSE [a \in Tracked \cup {address} |->
             IF a = address THEN NewAccount(info) ELSE accounts[a]]

\* the external database's cache after storage(address, index): a cached slot
\* is answered from the cache; otherwise the account is cached first when it
\* is not yet, and the slot is asked from the node and cached in the account
CacheAfterStorage(address, index, info, v) ==
    IF StorageHit(address, index) THEN accounts
    ELSE [a \in Tracked \cup {address} |->
             IF a # address THEN accounts[a]
             ELSE LET acc == CacheAfterBasic(address, info)[address]
                  IN  [acc EXCEPT !.storage =
                          InsertAll(acc.storage, [s \in {index} |-> v])]]

\* whether the node answers the query of the external database: it is asked
\* only for an account that is not cached
QueryAnswers(address) ==
    IF address \in Tracked THEN {TRUE} ELSE BOOLEAN

\* Database::basic(address): track_miss is commented out; the call goes to
\* the external database, whose Result is returned as it is
BasicCall(address, answered) ==
    /\ nops < MaxOps
    /\ UNCHANGED <<wsvars, liqvars>>
    /\ answered \in QueryAnswers(address)
    /\ IF answered
       THEN /\ \E info \in AskedInfos(address) :
                  accounts' = CacheAfterBasic(address, info)
            /\ fetched' = fetched \cup ({address} \ Tracked)
            /\ outcome' = Returned
       ELSE /\ UNCHANGED <<accounts, fetched>>
            /\ outcome' = Failed
    /\ rd' = [NoRead EXCEPT !.addr = address,
                             !.mocked = address \in mocked_accounts,
                             !.queried = address \notin Tracked]
    /\ lastOp' = "basic"
    /\ nops' = nops + 1
    /\ ret' = EmptyMap /\ upd_addrs' = {} /\ warned' = {}
    /\ pre' = EmptyMap /\ applied' = EmptyMap /\ upd_block' = None
    /\ UNCHANGED <<ext_block, missed_accounts, mocked_accounts, block,
                   initialized>>

\* Database::storage(address, index): track_miss and the check of
\* mocked_accounts are commented out; every read goes to the external database
StorageCall(address, index) ==
    /\ nops < MaxOps
    /\ UNCHANGED <<wsvars, liqvars>>
    /\ \E info \in AskedInfos(address), v \in AskedValues(address, index) :
          /\ accounts' = CacheAfterStorage(address, index, info, v)
          /\ rd' = [addr |-> address, slot |-> index,
                    value |-> accounts'[address].storage[index],
                    mocked |-> address \in mocked_accounts,
                    queried |-> ~StorageHit(address, index),
                    cached |-> IF StorageHit(address, index)
                               THEN Some(accounts[address].storage[index])
                               ELSE None]
    /\ fetched' = fetched \cup ({address} \ Tracked)
    /\ lastOp' = "storage"
    /\ outcome' = Returned
    /\ nops' = nops + 1
    /\ ret' = EmptyMap /\ upd_addrs' = {} /\ warned' = {}
    /\ pre' = EmptyMap /\ applied' = EmptyMap /\ upd_block' = None
    /\ UNCHANGED <<ext_block, missed_accounts, mocked_accounts, block,
                   initialized>>

\* Database::code_by_hash(_code_hash): panic!("Not implemented")
CodeByHashCall(code_hash) ==
    /\ nops < MaxOps
    /\ UNCHANGED <<wsvars, liqvars>>
    /\ outcome' = PanicWith("Not implemented")
    /\ lastOp' = "code_by_hash"
    /\ nops' = nops + 1
    /\ rd' = NoRead /\ ret' = EmptyMap /\ upd_addrs' = {} /\ warned' = {}
    /\ pre' = EmptyMap /\ applied' = EmptyMap /\ upd_block' = None
    /\ UNCHANGED <<accounts, ext_block, missed_accounts, mocked_accounts, block,
                   fetched, initialized>>

\* Database::block_hash(_number): todo!()
BlockHashCall(number) ==
    /\ nops < MaxOps
    /\ UNCHANGED <<wsvars, liqvars>>
    /\ outcome' = PanicWith("not yet implemented")
    /\ lastOp' = "block_hash"
    /\ nops' = nops + 1
    /\ rd' = NoRead /\ ret' = EmptyMap /\ upd_addrs' = {} /\ warned' = {}
    /\ pre' = EmptyMap /\ applied' = EmptyMap /\ upd_block' = None
    /\ UNCHANGED <<accounts, ext_block, missed_accounts, mocked_accounts, block,
                   fetched, initialized>>

\* the four methods of Database called on the store itself
Basic(address, answered) == Direct /\ BasicCall(address, answered)

Storage(address, index) == Direct /\ StorageCall(address, index)

CodeByHash(code_hash) == Direct /\ CodeByHashCall(code_hash)

BlockHash(number) == Direct /\ BlockHashCall(number)

\* ------------------------------------------------------------------------
\* SharedSimulationDB: the short-lived wrapper handed to REVM
\* ------------------------------------------------------------------------

\* how many SharedSimulationDB a run creates
MaxAdapters == 2

\* the arguments of a call of a Database method
CallArgs ==
    [address : Addresses, index : Slots, answered : BOOLEAN,
     code_hash : Codes, number : BlockNumbers]

\* the Database method `method` of the store self.db points to, called with
\* the arguments the method takes
StoreCall(method, args) ==
    CASE method = "basic" -> BasicCall(args.address, args.answered)
      [] method = "storage" -> StorageCall(args.address, args.index)
      [] method = "code_by_hash" -> CodeByHashCall(args.code_hash)
      [] method = "block_hash" -> BlockHashCall(args.number)

\* a wrapper whose methods all end in basic
ForwardsAllToBasic(method) == "basic"

\* the method of the store a method of SharedSimulationDB calls:
\* basic -> Database::basic(self.db, ..), and so on for the other three
ForwardsTo(method) == method

\* a call of `method` on the SharedSimulationDB that borrows the store
SharedCall(method, args) ==
    /\ shared
    /\ via' = method
    /\ UNCHANGED <<shared, adapters>>
    /\ StoreCall(ForwardsTo(method), args)

\* SharedSimulationDB::new(db): takes the &mut borrow of the store
SharedNew ==
    /\ ~shared
    /\ adapters < MaxAdapters
    /\ shared' = TRUE
    /\ adapters' = adapters + 1
    /\ UNCHANGED <<storevars, via>>
    /\ UNCHANGED <<wsvars, liqvars>>

\* the SharedSimulationDB is dropped at the end of the run: the borrow ends
SharedDrop ==
    /\ shared
    /\ shared' = FALSE
    /\ UNCHANGED <<storevars, adapters, via>>
    /\ UNCHANGED <<wsvars, liqvars>>

\* <SharedSimulationDB as Database>::basic(address)
SharedBasic(address, answered) ==
    \E args \in CallArgs :
        /\ args.address = address /\ args.answered = answered
        /\ args.index = 1 /\ args.code_hash = "c1" /\ args.number = 1
        /\ SharedCall("basic", args)

\* <SharedSimulationDB as Database>::code_by_hash(code_hash)
SharedCodeByHash(code_hash) ==
    \E args \in CallArgs :
        /\ args.code_hash = code_hash
        /\ args.address = "a1" /\ args.answered /\ args.index = 1
        /\ args.number = 1
        /\ SharedCall("code_by_hash", args)

\* <SharedSimulationDB as Database>::storage(address, index)
SharedStorage(address, index) ==
    \E args \in CallArgs :
        /\ args.address = address /\ args.index = index
        /\ args.answered /\ args.code_hash = "c1" /\ args.number = 1
        /\ SharedCall("storage", args)

\* <SharedSimulationDB as Database>::block_hash(number)
SharedBlockHash(number) ==
    \E args \in CallArgs :
        /\ args.number = number
        /\ args.address = "a1" /\ args.answered /\ args.index = 1
        /\ args.code_hash = "c1"
        /\ SharedCall("block_hash", args)

\* ------------------------------------------------------------------------
\* uniswap_v3::liquidity_math::add_liquidity_delta
\* ------------------------------------------------------------------------

\* the width of the arguments, scaled down from 128: x ranges over
\* 0 .. 2^Bits - 1 and y over -2^(Bits-1) .. 2^(Bits-1) - 1
Bits == 16

\* u128::MAX, i128::MIN and i128::MAX at this width
UMax == 2^Bits - 1

IMin == -(2^(Bits - 1))

IMax == 2^(Bits - 1) - 1

\* results of the call
NoResult == [kind |-> "none"]

Value(v) == [kind |-> "value", v |-> v]

Overflow == [kind |-> "panic"]

\* the two's complement wrap of v into the signed range
WrapSigned(v) == ((v - IMin) % (2^Bits)) + IMin

\* the two's complement wrap of v into the unsigned range
WrapUnsigned(v) == v % (2^Bits)

\* `v as u128` for v: i128: the same bits read as unsigned
AsUnsigned(v) == WrapUnsigned(v)

\* an unsigned operation whose exact result is v: the value when it fits;
\* when it does not, a panic with overflow checks and the wrap without
Unsigned(v, overflow_checks) ==
    IF v \in 0..UMax THEN Value(v)
    ELSE IF overflow_checks THEN Overflow
    ELSE Value(WrapUnsigned(v))

\* fn add_liquidity_delta(x: u128, y: i128) -> u128
add_liquidity_delta(x, y, overflow_checks) ==
    IF y < 0
    THEN \* x - (-y as u128): the negation comes before the cast
         IF -y > IMax /\ overflow_checks
         THEN Overflow
         ELSE Unsigned(x - AsUnsigned(WrapSigned(-y)), overflow_checks)
    ELSE \* x + (y as u128)
         Unsigned(x + AsUnsigned(y), overflow_checks)

\* the arguments a call is made with: the ends of both ranges, the values
\* around the sign bit, and those of test_add_liquidity_delta
LiqXs == {0, 1, 1000, 10000, IMax, IMax + 1, IMax + 2, UMax}

LiqYs == {IMin, IMin + 1, -10000, -1000, -1, 0, 1, 1000, IMax}

\* no call of add_liquidity_delta
LiqIdle ==
    /\ liq_x = 0
    /\ liq_y = 0
    /\ liq_checks = TRUE
    /\ liq_res = NoResult

\* the arguments and the build of one call
LiqArgs ==
    /\ liq_x \in LiqXs
    /\ liq_y \in LiqYs
    /\ liq_checks \in BOOLEAN
    /\ liq_res = NoResult

\* the call add_liquidity_delta(liq_x, liq_y)
AddLiquidityDelta ==
    /\ liq_res = NoResult
    /\ liq_res' = add_liquidity_delta(liq_x, liq_y, liq_checks)
    /\ UNCHANGED <<liq_x, liq_y, liq_checks>>
    /\ UNCHANGED <<dbvars, wsvars>>

\* ------------------------------------------------------------------------
\* The realtime websocket client: TychoWsClientImpl::realtime_messages
\* ------------------------------------------------------------------------

\* mpsc::channel(30)
ChannelCapacity == 30

\* how many BlockAccountChanges frames the feed sends
MaxEvents == 32

\* how many Ping frames the feed sends
MaxPings == 2

\* subscription ids (Uuid)
SubIds == {"s1", "s2"}

\* extractor identities
Extractors == {"e1", "e2"}

\* a frame as ws.read() returns it; a text frame is named by what it decodes to
Frame(kind, id, ext, ev) == [kind |-> kind, id |-> id, ext |-> ext, ev |-> ev]

NoFrame == Frame("None", "-", "-", 0)

\* Result<T, TychoClientError>
Ok(x) == [ok |-> TRUE, val |-> x]

Err(kind, text) == [ok |-> FALSE, val |-> <<kind, text>>]

\* the strings handed to the constructors: one that is no URL, and URLs by
\* scheme and host; the host "up" has a server listening, the host "down"
\* has none
Urls ==
    {[wellformed |-> FALSE, scheme |-> "", host |-> ""],
     [wellformed |-> TRUE, scheme |-> "ws", host |-> "up"],
     [wellformed |-> TRUE, scheme |-> "ws", host |-> "down"],
     [wellformed |-> TRUE, scheme |-> "wss", host |-> "down"],
     [wellformed |-> TRUE, scheme |-> "http", host |-> "up"],
     [wellformed |-> TRUE, scheme |-> "https", host |-> "down"],
     [wellformed |-> TRUE, scheme |-> "ftp", host |-> "up"]}

\* Url::parse(s).map_err(|e| TychoClientError::UrlParsing(..))
UrlParse(s) ==
    IF s.wellformed THEN Ok([scheme |-> s.scheme, host |-> s.host])
                    ELSE Err("UrlParsing", "parse error")

\* a scheme check that lets every scheme through
AnyScheme(scheme) == TRUE

\* !(url.scheme() != "ws" && url.scheme() != "wss")
WsSchemeOk(scheme) == scheme \in {"ws", "wss"}

\* !(url.scheme() != "http" && url.scheme() != "https")
HttpSchemeOk(scheme) == scheme \in {"http", "https"}

\* the value TychoWsClientImpl::new(ws_url) returns
WsClientNew(ws_url) ==
    LET url == UrlParse(ws_url)
    IN  IF ~url.ok THEN url
        ELSE IF ~WsSchemeOk(url.val.scheme)
        THEN Err("UrlParsing", "URL scheme must be ws or wss")
        ELSE Ok([url |-> url.val])

\* the value TychoHttpClientImpl::new(http_url) returns; built says whether
\* ClientBuilder::build() gave a client
HttpClientNew(http_url, built) ==
    LET url == UrlParse(http_url)
    IN  IF ~built THEN Err("HttpClient", "builder error")
        ELSE IF ~url.ok THEN url
        ELSE IF ~HttpSchemeOk(url.val.scheme)
        THEN Err("UrlParsing", "URL scheme must be http or https")
        ELSE Ok([http_client |-> "Client", url |-> url.val])

\* no constructor was called yet
NoClient == [kind |-> "none", input |-> "-", result |-> Err("-", "-")]

\* whether connect(&ws_url) to the client's URL succeeds
Listening == client.result.ok /\ client.result.val.url.host = "up"

\* realtime_messages is not called: its locals are as it creates them,
\* let (tx, rx) = mpsc::channel(30), active_extractors = HashMap::new()
NoCall ==
    /\ subscribed = "no"
    /\ after_malformed = FALSE
    /\ announced = [id \in SubIds |-> "-"]
    /\ active_extractors = EmptyMap
    /\ chan = <<>>
    /\ tx = "alive"
    /\ rx_owner = "fn"
    /\ held = 0
    /\ msg = NoFrame
    /\ pongs = 0
    /\ npings = 0
    /\ nevents = 0
    /\ received = <<>>
    /\ eos = FALSE

\* no client is constructed
InitWs ==
    /\ client = NoClient
    /\ pc = "unbuilt"
    /\ NoCall

\* a websocket client was constructed, and realtime_messages not called yet
ClientBuilt ==
    /\ \E ws_url \in Urls :
          /\ WsClientNew(ws_url).ok
          /\ client = [kind |-> "ws", input |-> ws_url,
                       result |-> WsClientNew(ws_url)]
    /\ pc = "start"
    /\ NoCall

\* a panic unwinds realtime_messages: sender, receiver and the buffered events
\* are dropped
Panic ==
    /\ pc' = "panicked"
    /\ tx' = "dropped"
    /\ rx_owner' = "unwound"
    /\ chan' = <<>>

\* an end of the loop that leaves a sender of the channel alive
KeepSender ==
    /\ pc' = "returned"
    /\ tx' = tx
    /\ rx_owner' = "consumer"

\* a Close arm without its break: the sender is dropped and the loop reads on
KeepReading ==
    /\ pc' = "loop"
    /\ tx' = "dropped"
    /\ rx_owner' = rx_owner

\* the loop is over: `rx` is returned, and `tx` is dropped if it was not yet
ReturnReceiver ==
    /\ pc' = "returned"
    /\ tx' = "dropped"
    /\ rx_owner' = "consumer"

\* TychoWsClientImpl::new(ws_url): on Ok the caller goes on to call
\* realtime_messages on the client
NewWsClient(ws_url) ==
    /\ pc = "unbuilt"
    /\ client' = [kind |-> "ws", input |-> ws_url, result |-> WsClientNew(ws_url)]
    /\ pc' = IF WsClientNew(ws_url).ok THEN "start" ELSE "unbuilt"
    /\ UNCHANGED <<subscribed, active_extractors, chan, tx, rx_owner, held, msg,
                   pongs, npings, nevents, received, eos, after_malformed,
                   announced>>
    /\ UNCHANGED <<dbvars, liqvars>>

\* TychoHttpClientImpl::new(http_url)
NewHttpClient(http_url, built) ==
    /\ pc = "unbuilt"
    /\ client' = [kind |-> "http", input |-> http_url,
                  result |-> HttpClientNew(http_url, built)]
    /\ UNCHANGED <<pc, subscribed, active_extractors, chan, tx, rx_owner, held,
                   msg, pongs, npings, nevents, received, eos, after_malformed,
                   announced>>
    /\ UNCHANGED <<dbvars, liqvars>>

\* TychoWsClient::subscribe(extractor_id): panic!("Not implemented")
Subscribe(extractor_id) ==
    /\ nops < MaxOps
    /\ client.kind = "ws" /\ client.result.ok
    /\ outcome' = PanicWith("Not implemented")
    /\ lastOp' = "subscribe"
    /\ nops' = nops + 1
    /\ rd' = NoRead /\ ret' = EmptyMap /\ upd_addrs' = {} /\ warned' = {}
    /\ pre' = EmptyMap /\ applied' = EmptyMap /\ upd_block' = None
    /\ UNCHANGED <<accounts, ext_block, missed_accounts, mocked_accounts, block,
                   fetched, initialized>>
    /\ via' = "-"
    /\ UNCHANGED <<shared, adapters>>
    /\ UNCHANGED <<wsvars, liqvars>>

\* TychoWsClient::unsubscribe(subscription_id): panic!("Not implemented")
Unsubscribe(subscription_id) ==
    /\ nops < MaxOps
    /\ client.kind = "ws" /\ client.result.ok
    /\ outcome' = PanicWith("Not implemented")
    /\ lastOp' = "unsubscribe"
    /\ nops' = nops + 1
    /\ rd' = NoRead /\ ret' = EmptyMap /\ upd_addrs' = {} /\ warned' = {}
    /\ pre' = EmptyMap /\ applied' = EmptyMap /\ upd_block' = None
    /\ UNCHANGED <<accounts, ext_block, missed_accounts, mocked_accounts, block,
                   fetched, initialized>>
    /\ via' = "-"
    /\ UNCHANGED <<shared, adapters>>
    /\ UNCHANGED <<wsvars, liqvars>>

\* connect(&ws_url) succeeds
ConnectOk ==
    /\ pc = "start"
    /\ Listening
    /\ pc' = "connected"
    /\ UNCHANGED <<subscribed, active_extractors, chan, tx, rx_owner, held, msg,
                   pongs, npings, nevents, received, eos>>
    /\ UNCHANGED <<client, after_malformed, announced>>
    /\ UNCHANGED <<dbvars, liqvars>>

\* connect(&ws_url) fails: expect("connect to websocket") panics
ConnectFail ==
    /\ pc = "start"
    /\ ~Listening
    /\ Panic
    /\ UNCHANGED <<subscribed, active_extractors, held, msg, pongs, npings,
                   nevents, received, eos>>
    /\ UNCHANGED <<client, after_malformed, announced>>
    /\ UNCHANGED <<dbvars, liqvars>>

\* a client that goes on without the Subscribe command
SubscribeForgotten(ok) == "no"

\* what became of the Subscribe command
SubscribeOutcome(ok) == IF ok THEN "sent" ELSE "failed"

\* ws.send(Subscribe{ambient}): a failure is logged and ignored
SendSubscribe(ok) ==
    /\ pc = "connected"
    /\ subscribed' = SubscribeOutcome(ok)
    /\ pc' = "loop"
    /\ UNCHANGED <<active_extractors, chan, tx, rx_owner, held, msg, pongs,
                   npings, nevents, received, eos>>
    /\ UNCHANGED <<client, after_malformed, announced>>
    /\ UNCHANGED <<dbvars, liqvars>>

\* a send that puts the event in front of the buffered ones
ForwardFront(buffer, ev) == <<ev>> \o buffer

\* the buffer after tx.blocking_send(ev) went through
Forward(buffer, ev) == Append(buffer, ev)

\* Message::Text decoding to BlockAccountChanges: tx.blocking_send(..).expect(..)
\* the n-th event the feed sends is n
RecvBlockAccountChanges ==
    /\ pc = "loop"
    /\ nevents < MaxEvents
    /\ nevents' = nevents + 1
    /\ msg' = Frame("BlockAccountChanges", "-", "-", nevents + 1)
    /\ IF rx_owner \notin {"fn", "consumer"}
       THEN \* the receiver is gone: blocking_send fails and expect panics
            Panic /\ held' = held
       ELSE IF Len(chan) < ChannelCapacity
       THEN /\ chan' = Forward(chan, nevents + 1)
            /\ UNCHANGED <<pc, tx, rx_owner, held>>
       ELSE \* the channel is full: blocking_send suspends
            /\ pc' = "blocked"
            /\ held' = nevents + 1
            /\ UNCHANGED <<chan, tx, rx_owner>>
    /\ UNCHANGED <<subscribed, active_extractors, pongs, npings, received, eos>>
    /\ UNCHANGED <<client, after_malformed, announced>>
    /\ UNCHANGED <<dbvars, liqvars>>

\* an insert that keeps the entry of an id that has one
InsertIfAbsent(map, id, ext) ==
    [i \in (DOMAIN map) \cup {id} |-> IF i \in DOMAIN map THEN map[i] ELSE ext]

\* active_extractors.insert(subscription_id, extractor_id)
InsertSub(map, id, ext) ==
    [i \in (DOMAIN map) \cup {id} |-> IF i = id THEN ext ELSE map[i]]

\* a remove that leaves the entry in the map
RemoveNothing(map, id) == map

\* active_extractors.remove(&subscription_id)
RemoveSub(map, id) == [i \in (DOMAIN map) \ {id} |-> map[i]]

\* Message::Text decoding to Response::NewSubscription
RecvNewSubscription(id, ext) ==
    /\ pc = "loop"
    /\ msg' = Frame("NewSubscription", id, ext, 0)
    /\ active_extractors' = InsertSub(active_extractors, id, ext)
    /\ announced' = [announced EXCEPT ![id] = ext]
    /\ UNCHANGED <<pc, subscribed, chan, tx, rx_owner, held, pongs, npings,
                   nevents, received, eos>>
    /\ UNCHANGED <<client, after_malformed>>
    /\ UNCHANGED <<dbvars, liqvars>>

\* a handler that removes the id when it is there and goes on when it is not
SubscriptionEndedLenient(id) ==
    /\ pc = "loop"
    /\ msg' = Frame("SubscriptionEnded", id, "-", 0)
    /\ active_extractors' = RemoveSub(active_extractors, id)
    /\ announced' = [announced EXCEPT ![id] = "-"]
    /\ UNCHANGED <<pc, tx, rx_owner, chan>>
    /\ UNCHANGED <<subscribed, held, pongs, npings, nevents, received, eos>>
    /\ UNCHANGED <<client, after_malformed>>
    /\ UNCHANGED <<dbvars, liqvars>>

\* Message::Text decoding to Response::SubscriptionEnded: remove(..).expect(..)
RecvSubscriptionEnded(id) ==
    /\ pc = "loop"
    /\ msg' = Frame("SubscriptionEnded", id, "-", 0)
    /\ IF id \in DOMAIN active_extractors
       THEN /\ active_extractors' = RemoveSub(active_extractors, id)
            /\ UNCHANGED <<pc, tx, rx_owner, chan>>
       ELSE \* expect("subscription id in active extractors") panics
            Panic /\ UNCHANGED active_extractors
    /\ announced' = [announced EXCEPT ![id] = "-"]
    /\ UNCHANGED <<subscribed, held, pongs, npings, nevents, received, eos>>
    /\ UNCHANGED <<client, after_malformed>>
    /\ UNCHANGED <<dbvars, liqvars>>

\* a handler that gives up the stream on a text frame that does not decode
MalformedEndsStream ==
    /\ pc = "loop"
    /\ msg' = Frame("Malformed", "-", "-", 0)
    /\ after_malformed' = TRUE
    /\ ReturnReceiver
    /\ UNCHANGED <<subscribed, active_extractors, chan, held, pongs, npings,
                   nevents, received, eos>>
    /\ UNCHANGED <<client, announced>>
    /\ UNCHANGED <<dbvars, liqvars>>

\* Message::Text that does not decode: the error is logged
RecvMalformed ==
    /\ pc = "loop"
    /\ msg' = Frame("Malformed", "-", "-", 0)
    /\ after_malformed' = TRUE
    /\ UNCHANGED <<pc, subscribed, active_extractors, chan, tx, rx_owner, held,
                   pongs, npings, nevents, received, eos>>
    /\ UNCHANGED <<client, announced>>
    /\ UNCHANGED <<dbvars, liqvars>>

\* a handler that answers a Ping twice
PongTwice(n) == n + 2

\* the Pong frames sent after ws.send(Message::Pong(..)) went through
PongSent(n) == n + 1

\* Message::Ping: ws.send(Message::Pong(Vec::new())).unwrap()
RecvPing(ok) ==
    /\ pc = "loop"
    /\ npings < MaxPings
    /\ npings' = npings + 1
    /\ msg' = Frame("Ping", "-", "-", 0)
    /\ IF ok
       THEN /\ pongs' = PongSent(pongs)
            /\ UNCHANGED <<pc, tx, rx_owner, chan>>
       ELSE \* the send fails: unwrap panics
            Panic /\ UNCHANGED pongs
    /\ UNCHANGED <<subscribed, active_extractors, held, nevents, received, eos>>
    /\ UNCHANGED <<client, after_malformed, announced>>
    /\ UNCHANGED <<dbvars, liqvars>>

\* Message::Pong: nothing
RecvPong ==
    /\ pc = "loop"
    /\ msg' = Frame("Pong", "-", "-", 0)
    /\ UNCHANGED <<pc, subscribed, active_extractors, chan, tx, rx_owner, held,
                   pongs, npings, nevents, received, eos>>
    /\ UNCHANGED <<client, after_malformed, announced>>
    /\ UNCHANGED <<dbvars, liqvars>>

\* unknown_msg (Message::Binary, Message::Frame): logged
RecvUnknown ==
    /\ pc = "loop"
    /\ msg' = Frame("Binary", "-", "-", 0)
    /\ UNCHANGED <<pc, subscribed, active_extractors, chan, tx, rx_owner, held,
                   pongs, npings, nevents, received, eos>>
    /\ UNCHANGED <<client, after_malformed, announced>>
    /\ UNCHANGED <<dbvars, liqvars>>

\* Message::Close: drop(tx); break; then `rx` is returned
RecvClose ==
    /\ pc = "loop"
    /\ msg' = Frame("Close", "-", "-", 0)
    /\ ReturnReceiver
    /\ UNCHANGED <<subscribed, active_extractors, chan, held, pongs, npings,
                   nevents, received, eos>>
    /\ UNCHANGED <<client, after_malformed, announced>>
    /\ UNCHANGED <<dbvars, liqvars>>

\* ws.read() returns Err: `while let Ok(msg)` ends the loop, `rx` is returned
ReadError ==
    /\ pc = "loop"
    /\ msg' = Frame("ReadError", "-", "-", 0)
    /\ ReturnReceiver
    /\ UNCHANGED <<subscribed, active_extractors, chan, held, pongs, npings,
                   nevents, received, eos>>
    /\ UNCHANGED <<client, after_malformed, announced>>
    /\ UNCHANGED <<dbvars, liqvars>>

\* the consumer's rx.blocking_recv() takes the oldest event; a sender
\* suspended on the full channel goes on
ConsumerRecv ==
    /\ rx_owner = "consumer"
    /\ chan # <<>>
    /\ received' = Append(received, Head(chan))
    /\ IF pc = "blocked"
       THEN chan' = Forward(Tail(chan), held) /\ pc' = "loop"
       ELSE chan' = Tail(chan) /\ pc' = pc
    /\ UNCHANGED <<subscribed, active_extractors, tx, rx_owner, held, msg, pongs,
                   npings, nevents, eos>>
    /\ UNCHANGED <<client, after_malformed, announced>>
    /\ UNCHANGED <<dbvars, liqvars>>

\* rx.blocking_recv() on an empty channel whose sender is dropped: None
ConsumerRecvEnd ==
    /\ rx_owner = "consumer"
    /\ chan = <<>>
    /\ tx = "dropped"
    /\ ~eos
    /\ eos' = TRUE
    /\ UNCHANGED <<pc, subscribed, active_extractors, chan, tx, rx_owner, held,
                   msg, pongs, npings, nevents, received>>
    /\ UNCHANGED <<client, after_malformed, announced>>
    /\ UNCHANGED <<dbvars, liqvars>>

\* the consumer drops (or closes) the receiver
ConsumerDrop ==
    /\ rx_owner = "consumer"
    /\ rx_owner' = "dropped"
    /\ chan' = <<>>
    /\ UNCHANGED <<pc, subscribed, active_extractors, tx, held, msg, pongs,
                   npings, nevents, received, eos>>
    /\ UNCHANGED <<client, after_malformed, announced>>
    /\ UNCHANGED <<dbvars, liqvars>>

WsNext ==
    \/ \E ws_url \in Urls : NewWsClient(ws_url)
    \/ \E http_url \in Urls, built \in BOOLEAN : NewHttpClient(http_url, built)
    \/ ConnectOk
    \/ ConnectFail
    \/ \E ok \in BOOLEAN : SendSubscribe(ok)
    \/ RecvBlockAccountChanges
    \/ \E id \in SubIds, ext \in Extractors : RecvNewSubscription(id, ext)
    \/ \E id \in SubIds : RecvSubscriptionEnded(id)
    \/ RecvMalformed
    \/ \E ok \in BOOLEAN : RecvPing(ok)
    \/ RecvPong
    \/ RecvUnknown
    \/ RecvClose
    \/ ReadError
    \/ ConsumerRecv
    \/ ConsumerRecvEnd
    \/ ConsumerDrop

\* ------------------------------------------------------------------------
\* Specifications
\* ------------------------------------------------------------------------

Init == InitDb /\ InitWs /\ LiqIdle

Next ==
    \/ \E addresses \in SUBSET Addresses, code \in Codes, mock \in BOOLEAN :
          InitContracts(addresses, code, mock)
    \/ \E address \in Addresses, account \in RemoteInfos, mock \in BOOLEAN :
          InitAccount(address, account, mock)
    \/ ClearMissedAccounts
    \/ \E update \in UpdateInputs, blk \in BlockNumbers : UpdateState(update, blk)
    \/ \E blk \in BlockNumbers : RevertState(blk)
    \/ \E address \in Addresses, answered \in BOOLEAN : Basic(address, answered)
    \/ \E code_hash \in Codes : CodeByHash(code_hash)
    \/ \E number \in BlockNumbers : BlockHash(number)
    \/ \E address \in Addresses, index \in Slots : Storage(address, index)

\* the simulation database
Spec == Init /\ [][Next]_vars

\* the realtime client
WsSpec == Init /\ [][WsNext]_vars

\* the simulation database next to a websocket client constructed for a
\* host that is up
ApiInit == InitDb /\ ClientBuilt /\ client.input.host = "up" /\ LiqIdle

ApiNext ==
    \/ Next
    \/ \E extractor_id \in Extractors : Subscribe(extractor_id)
    \/ \E subscription_id \in SubIds : Unsubscribe(subscription_id)

\* the operations of the simulation database and of the websocket client
\* other than realtime_messages
ApiSpec == ApiInit /\ [][ApiNext]_vars

\* the update a run with SharedSimulationDB draws: every field set, for
\* every address
FullUpdate ==
    [a \in Addresses |->
        StateUpdate(Some([s \in Slots |-> 1]), Some(1), Some("c2"))]

SharedNext ==
    \/ InitContracts({"a1"}, "c1", TRUE)
    \/ UpdateState(FullUpdate, 2)
    \/ SharedNew
    \/ \E address \in Addresses, answered \in BOOLEAN :
          SharedBasic(address, answered)
    \/ SharedCodeByHash("c1")
    \/ \E address \in Addresses, index \in Slots : SharedStorage(address, index)
    \/ SharedBlockHash(1)
    \/ SharedDrop

\* the store loaded and updated by its owner and, in between, read through
\* one SharedSimulationDB after another
SharedSpec == Init /\ [][SharedNext]_vars

LiqInit == InitDb /\ InitWs /\ LiqArgs

LiqNext == AddLiquidityDelta

\* one call of add_liquidity_delta, in a build with and in a build without
\* overflow checks
LiqSpec == LiqInit /\ [][LiqNext]_vars

\* ------------------------------------------------------------------------
\* Properties of the simulation database
\* ------------------------------------------------------------------------

\* the value a slot reads as: an absent entry is implicitly zero
SlotValue(account, s) ==
    IF s \in DOMAIN account.storage THEN account.storage[s] ELSE 0

\* C1: round trip of update_state.  After an update of tracked accounts and
\* the application of the revert map it returned, every account has the
\* balance, the code and, slot by slot, the storage values it had before the
\* update; a slot that was absent before reads as zero again.
C1_RoundTrip ==
    lastOp = "revert" =>
        \A a \in DOMAIN pre :
            /\ a \in Tracked
            /\ accounts[a].balance = pre[a].balance
            /\ accounts[a].code = pre[a].code
            /\ \A s \in Slots : SlotValue(accounts[a], s) = SlotValue(pre[a], s)

\* C2: a storage read on a mocked address returns zero, whatever the node
\* would answer.
C2_MockedReadsZero ==
    (lastOp = "storage" /\ rd.mocked) => rd.value = 0

\* C3: a read on a mocked address never queries the node; a storage read
\* resolves to the pre-populated value of the slot, and to zero when the slot
\* was not pre-populated.
C3_MockedNeverQueries ==
    (lastOp \in {"basic", "storage"} /\ rd.mocked) =>
        /\ ~rd.queried
        /\ lastOp = "storage" =>
              rd.value = (IF rd.cached # None THEN rd.cached[1] ELSE 0)

\* C4: clear_missed_accounts empties the missed set and drops the cached
\* account of every address that only a fallback query populated; every
\* registered address that was tracked stays tracked with the same values.
C4_ClearDropsFallbackOnly ==
    [][lastOp' = "clear_missed_accounts" =>
          /\ missed_accounts' = {}
          /\ \A a \in fetched \ initialized : a \notin DOMAIN accounts'
          /\ \A a \in initialized \cap DOMAIN accounts :
                a \in DOMAIN accounts' /\ accounts'[a] = accounts[a]]_vars

\* C5: the missed set holds only addresses a fallback query populated, and
\* never an address given to init_contracts or init_account.
C5_MissedOnlyFallback ==
    /\ missed_accounts \subseteq fetched
    /\ missed_accounts \cap initialized = {}

\* C6: update_state with a diff for an untracked address creates no account
\* for it, changes no data of the other accounts, and reports the address.
C6_UntrackedUpdateReported ==
    lastOp = "update_state" =>
        /\ \A a \in upd_addrs \ DOMAIN pre : a \notin Tracked /\ a \in warned
        /\ \A a \in (DOMAIN pre) \ upd_addrs :
              a \in Tracked /\ accounts[a] = pre[a]

\* ------------------------------------------------------------------------
\* Properties of the realtime client
\* ------------------------------------------------------------------------

\* the events of the BlockAccountChanges frames the feed sent, in order
Sent == [i \in 1..nevents |-> i]

C8_ConsumerCanDrain ==
    pc = "blocked" => rx_owner = "consumer"

\* C9: a NewSubscription(X, E) frame makes the map associate X with E; every
\* frame that is no subscription response for X leaves X's entry as it is; a
\* SubscriptionEnded(X) frame for an active X removes X, the loop goes on, and
\* the map is empty when X was its only entry.
C9_SubscriptionBookkeeping ==
    [][pc = "loop" =>
          \A x \in SubIds :
             /\ (msg'.kind = "NewSubscription" /\ msg'.id = x) =>
                   /\ x \in DOMAIN active_extractors'
                   /\ active_extractors'[x] = msg'.ext
             /\ (msg'.kind = "SubscriptionEnded" /\ msg'.id = x
                    /\ x \in DOMAIN active_extractors) =>
                   /\ x \notin DOMAIN active_extractors'
                   /\ pc' = "loop"
                   /\ (DOMAIN active_extractors = {x} =>
                          active_extractors' = EmptyMap)
             /\ (x \in DOMAIN active_extractors /\ pc' # "panicked"
                    /\ ~(msg'.kind \in {"NewSubscription", "SubscriptionEnded"}
                            /\ msg'.id = x)) =>
                   /\ x \in DOMAIN active_extractors'
                   /\ active_extractors'[x] = active_extractors[x]]_vars

\* a SubscriptionEnded frame was handled and left the map empty
C9_Witness ==
    /\ pc = "loop"
    /\ msg.kind = "SubscriptionEnded"
    /\ active_extractors = EmptyMap

\* what a step of the read loop leaves alone when it forwards nothing
EventsUntouched ==
    /\ chan' = chan
    /\ tx' = tx
    /\ rx_owner' = rx_owner
    /\ nevents' = nevents
    /\ received' = received

C11_MalformedSkipped ==
    [][pc = "loop" =>
          /\ msg'.kind = "Malformed" =>
                /\ pc' = "loop"
                /\ active_extractors' = active_extractors
                /\ pongs' = pongs
                /\ EventsUntouched
          /\ (after_malformed /\ msg'.kind = "BlockAccountChanges") =>
                /\ tx' = "alive"
                /\ IF Len(chan) < ChannelCapacity
                   THEN chan' = Append(chan, msg'.ev) /\ pc' = "loop"
                   ELSE chan' = chan /\ held' = msg'.ev /\ pc' = "blocked"]_vars

\* an event was forwarded after a text frame had failed to decode in the
\* middle of the stream
C11_Witness ==
    /\ after_malformed
    /\ pc = "loop"
    /\ msg.kind = "BlockAccountChanges"
    /\ Len(chan) > 1
    /\ chan[Len(chan)] = msg.ev
    /\ active_extractors # EmptyMap

\* C12: a Close frame drops the sender and ends the loop with the receiver
\* returned and the buffered events kept; after it no frame is processed; and
\* a consumer that then sees the end of the stream has received every event
\* forwarded before the Close, in order.
C12_CloseEndsStream ==
    [][/\ (pc = "loop" /\ msg'.kind = "Close") =>
             /\ tx' = "dropped"
             /\ pc' = "returned"
             /\ rx_owner' = "consumer"
             /\ chan' = chan
       /\ msg.kind = "Close" =>
             /\ msg' = msg
             /\ pc' = "returned"
             /\ tx' = "dropped"
             /\ nevents' = nevents
             /\ pongs' = pongs
             /\ active_extractors' = active_extractors
       /\ (msg'.kind = "Close" /\ eos') =>
             /\ received' = [i \in 1..nevents' |-> i]
             /\ chan' = <<>>]_vars

\* after a Close frame the consumer read the events sent before it and then
\* the end of the stream
C12_Witness ==
    /\ msg.kind = "Close"
    /\ eos
    /\ Len(received) > 1
    /\ received = Sent

\* C13: the consumer cancels the stream by dropping the receiver while the
\* read loop runs: whenever the loop runs (or waits on the full channel) the
\* receiver is in the consumer's hands or dropped by it, so that the next
\* forwarding attempt can fail and stop the loop.
C13_ConsumerCanCancel ==
    pc \in {"loop", "blocked"} => rx_owner \in {"consumer", "dropped"}

\* C14 as stated: a string that is no URL, a wrong scheme and a host that
\* accepts no connection each make the constructor return an error, so that
\* realtime_messages never fails to connect on a constructed client.
C14_ConstructionFailsWhenUnreachable ==
    /\ (client.kind = "ws" /\ client.result.ok) =>
          /\ client.input.wellformed
          /\ client.input.scheme \in {"ws", "wss"}
          /\ client.input.host = "up"
    /\ (client.kind = "http" /\ client.result.ok) =>
          /\ client.input.wellformed
          /\ client.input.scheme \in {"http", "https"}
    /\ ~(pc = "panicked" /\ msg = NoFrame)

\* C14 amended: the constructors return an error for a string that is no URL
\* and for a wrong scheme, and then no client exists to call
\* realtime_messages on; they open no connection, so a well-formed ws/wss URL
\* gives a client whatever its host, and a connection failure shows only in
\* realtime_messages, as a panic before any frame is read.
C14_ConstructionChecksUrlOnly ==
    /\ client.kind = "ws" =>
          (client.result.ok <=>
              (client.input.wellformed /\ client.input.scheme \in {"ws", "wss"}))
    /\ (client.kind = "http" /\ client.result.ok) =>
          /\ client.input.wellformed
          /\ client.input.scheme \in {"http", "https"}
    /\ pc # "unbuilt" => (client.kind = "ws" /\ client.result.ok)
    /\ (client.kind = "ws" /\ client.result.ok /\ client.input.host = "down") =>
          pc \in {"start", "panicked"} /\ msg = NoFrame /\ subscribed = "no"

\* a client was constructed for a host that accepts no connection, and
\* realtime_messages panicked on it
C14_Witness ==
    /\ pc = "panicked"
    /\ msg = NoFrame
    /\ client.kind = "ws"
    /\ client.result.ok
    /\ client.input.host = "down"

Unsupported == {"block_hash", "code_by_hash", "subscribe", "unsubscribe"}

\* C15: a call of block_hash, code_by_hash, subscribe or unsubscribe, in
\* whatever state, ends in a panic with a not-implemented message and not in
\* a returned value, and leaves the store and the client as they were.
C15_UnsupportedPanics ==
    [][(nops' # nops /\ lastOp' \in Unsupported) =>
          /\ outcome'.kind = "panic"
          /\ outcome'.text \in {"Not implemented", "not yet implemented"}
          /\ UNCHANGED <<accounts, ext_block, missed_accounts, mocked_accounts,
                         block>>
          /\ UNCHANGED wsvars]_vars

\* an unsupported operation was called on a store that holds accounts, a
\* block and a mocked address
C15_Witness ==
    /\ lastOp \in Unsupported
    /\ outcome.kind = "panic"
    /\ Tracked # {}
    /\ block # None
    /\ client.result.ok

\* C16: basic on an address that is not cached queries the node, caches the
\* answer and records the address in the missed set; on a cached address it
\* issues no query; a failing query is returned as an error and leaves the
\* cache and the missed set unchanged.
C16_BasicCachesAndRecordsMiss ==
    [][(nops' # nops /\ lastOp' = "basic") =>
          /\ rd'.queried = (rd'.addr \notin Tracked)
          /\ (rd'.queried /\ outcome'.kind = "ok") =>
                /\ rd'.addr \in DOMAIN accounts'
                /\ rd'.addr \in missed_accounts'
          /\ ~rd'.queried =>
                outcome'.kind = "ok" /\ accounts' = accounts
          /\ outcome'.kind = "error" =>
                accounts' = accounts /\ missed_accounts' = missed_accounts]_vars

\* C17: every update_state leaves the block of the store and the block of
\* the external database at the block it was given, whatever the update
\* holds; no other operation changes either.
C17_UpdatePinsBlock ==
    [][IF nops' # nops /\ lastOp' \in {"update_state", "revert"}
       THEN block' = Some(upd_block') /\ ext_block' = Some(upd_block')
       ELSE block' = block /\ ext_block' = ext_block]_vars

\* an update that names untracked addresses only moved the store, which holds
\* an account, to block 2
C17_Witness ==
    /\ lastOp = "update_state"
    /\ upd_addrs # {}
    /\ upd_addrs \cap Tracked = {}
    /\ Tracked # {}
    /\ upd_block = 2
    /\ block = Some(2)

\* C18: an update of a tracked account touches what its diff names and nothing
\* else: the revert storage map has an entry for every slot of the diff and
\* for no other, the slots the diff does not name keep their values, and
\* storage, balance and code are unchanged and absent from the revert record
\* when the diff has none.
C18_OnlyNamedTouched ==
    lastOp = "update_state" =>
        \A a \in DOMAIN applied :
            LET d == applied[a]
            IN  /\ d.storage # None =>
                      /\ ret[a].storage # None
                      /\ DOMAIN ret[a].storage[1] = DOMAIN d.storage[1]
                      /\ \A s \in (DOMAIN pre[a].storage) \ DOMAIN d.storage[1] :
                            /\ s \in DOMAIN accounts[a].storage
                            /\ accounts[a].storage[s] = pre[a].storage[s]
                /\ d.storage = None =>
                      accounts[a].storage = pre[a].storage /\ ret[a].storage = None
                /\ d.balance = None =>
                      accounts[a].balance = pre[a].balance /\ ret[a].balance = None
                /\ d.code = None =>
                      accounts[a].code = pre[a].code /\ ret[a].code = None

\* C19: an update over tracked and untracked addresses applies the diff of
\* every tracked one, creates no account for the others, and returns a revert
\* map over exactly the tracked addresses of the update; the revert map
\* applied as an update brings every account back to what it read as before.
C19_BatchAppliedAndRevertible ==
    /\ lastOp = "update_state" =>
          /\ DOMAIN ret = upd_addrs \cap DOMAIN pre
          /\ DOMAIN accounts = DOMAIN pre
          /\ \A a \in DOMAIN applied : accounts[a] = ApplyUpdate(pre[a], applied[a])
    /\ lastOp = "revert" =>
          /\ DOMAIN accounts = DOMAIN pre
          /\ \A a \in DOMAIN pre :
                /\ accounts[a].balance = pre[a].balance
                /\ accounts[a].code = pre[a].code
                /\ \A s \in Slots :
                      SlotValue(accounts[a], s) = SlotValue(pre[a], s)

\* C21: a SubscriptionEnded frame for an id that is not in the map stops the
\* read loop with a panic; after the panic no frame is read and no event is
\* forwarded or delivered.
C21_UnknownEndedPanics ==
    [][/\ (pc = "loop" /\ msg'.kind = "SubscriptionEnded"
              /\ msg'.id \notin DOMAIN active_extractors) =>
             /\ pc' = "panicked"
             /\ tx' = "dropped"
             /\ rx_owner' = "unwound"
       /\ pc = "panicked" =>
             /\ pc' = "panicked"
             /\ msg' = msg
             /\ nevents' = nevents
             /\ chan' = chan
             /\ received' = received]_vars

\* the loop panicked on a SubscriptionEnded frame in the middle of a stream,
\* with another subscription active
C21_Witness ==
    /\ pc = "panicked"
    /\ msg.kind = "SubscriptionEnded"
    /\ msg.id \notin DOMAIN active_extractors
    /\ active_extractors # EmptyMap
    /\ nevents > 0

\* C23: a read error (the connection ending without a Close frame) ends the
\* loop: the receiver is returned with the buffered events, no sender is left,
\* no frame is handled afterwards, and a consumer that sees the end of the
\* stream has received every event sent before the error, in order; a
\* consumer holding the receiver never faces an empty channel with a sender
\* still alive.
C23_ReadErrorEndsStream ==
    [][/\ (pc = "loop" /\ msg'.kind = "ReadError") =>
             /\ pc' = "returned"
             /\ tx' = "dropped"
             /\ rx_owner' = "consumer"
             /\ chan' = chan
       /\ msg.kind = "ReadError" =>
             /\ msg' = msg
             /\ pc' = "returned"
             /\ nevents' = nevents
             /\ pongs' = pongs
             /\ active_extractors' = active_extractors
       /\ (msg'.kind = "ReadError" /\ eos') =>
             /\ received' = [i \in 1..nevents' |-> i]
             /\ chan' = <<>>
       /\ (msg'.kind = "ReadError" /\ rx_owner' = "consumer") =>
             tx' = "dropped"]_vars

\* after a read error the consumer read the events sent before it and then
\* the end of the stream
C23_Witness ==
    /\ msg.kind = "ReadError"
    /\ eos
    /\ Len(received) > 1
    /\ received = Sent

\* the map holds exactly the ids announced and not ended, each with the
\* extractor of its latest NewSubscription frame
MapMatchesFrames ==
    /\ DOMAIN active_extractors = {id \in SubIds : announced[id] # "-"}
    /\ \A id \in DOMAIN active_extractors :
          active_extractors[id] = announced[id]

\* C24: after every frame the subscription map holds exactly the ids for
\* which a NewSubscription frame came with no SubscriptionEnded frame since,
\* each with the extractor of its latest NewSubscription frame (one entry per
\* id); a state-change event, a Ping, a Pong, a binary or a malformed frame
\* leaves the map as it is.
C24_ActiveMapInvariant ==
    [][/\ MapMatchesFrames'
       /\ (pc = "loop" /\ msg'.kind \in {"BlockAccountChanges", "Ping", "Pong",
                                          "Binary", "Malformed"}) =>
             active_extractors' = active_extractors]_vars

\* a subscription ended while another stayed active, with events, a Ping and
\* a malformed frame in the stream
C24_Witness ==
    /\ pc = "loop"
    /\ msg.kind = "SubscriptionEnded"
    /\ Cardinality(DOMAIN active_extractors) = 1
    /\ nevents > 0
    /\ pongs > 0
    /\ after_malformed

\* the methods of Database
DatabaseMethods == {"basic", "storage", "code_by_hash", "block_hash"}

\* C22: a call of a Database method through SharedSimulationDB is, in result
\* and in what it does to the store (cache, missed, mocked, blocks), a call
\* of the same method on the store; creating and dropping a
\* SharedSimulationDB leaves the store as it is, so what one run cached is
\* there for the next.
C22_AdapterForwards ==
    [][/\ (shared /\ nops' # nops) =>
             /\ via' \in DatabaseMethods
             /\ lastOp' = via'
             /\ \E args \in CallArgs : StoreCall(via', args)
       /\ shared' # shared =>
             UNCHANGED <<accounts, ext_block, missed_accounts, mocked_accounts,
                         block>>]_vars

\* a second SharedSimulationDB on the same store had a storage read answered
\* from the cache
C22_Witness ==
    /\ shared
    /\ adapters = 2
    /\ via = "storage"
    /\ lastOp = "storage"
    /\ ~rd.queried
    /\ rd.addr \in fetched

\* C25: a call of add_liquidity_delta returns x + y when the sum is in
\* 0 .. u128::MAX, the smallest y included, and returns no value (so no
\* wrapped one) when the sum is outside.
C25_AddsDelta ==
    liq_res # NoResult =>
        IF liq_x + liq_y \in 0..UMax
        THEN liq_res = Value(liq_x + liq_y)
        ELSE liq_res = Overflow

====
